---- MODULE Spec2Model ----
(***************************************************************************)
(* Model of cac (vanillaiice/cac): the concurrent directory run.           *)
(*                                                                         *)
(*   prog = "ConvertDir" : convert.ConvertDir  (src/convert/dir.go) with   *)
(*                         convert.ConvertFile (package convert)           *)
(*   prog = "main"       : the directory run of src/main.go                *)
(*                                                                         *)
(* A path is a record [dir, base, ext]; the filesystem is the set of       *)
(* regular files that exist.  The source directory "src" holds the         *)
(* subdirectory "src/a.sub"; "out" lies outside the walked tree.           *)
(***************************************************************************)
EXTENDS Integers, Sequences, FiniteSets, TLC

VARIABLES
    prog,             \* which program is running
    opts,             \* the job configuration (ConvertDirOpts / the flags of main)
    files,            \* the filesystem: set of existing regular files
    stack,            \* entries filepath.WalkDir has still to visit, in order
    pc,               \* position of the driver (ConvertDir / main)
    units,            \* one record per non-directory entry the walker visited
    sem,              \* number of tokens in the buffered channel sem
    wg,               \* counter of the sync.WaitGroup
    collectedErrors,  \* the error list
    processedFiles,
    skippedFiles,
    movedFiles,
    failedFiles,
    summary,          \* the printed conversion summary, or NoSummary
    result,           \* what the run returned / exited with
    dirs,             \* the filesystem: set of existing directories
    tree,             \* the regular files that existed when the run started
    first,            \* what an earlier run on the same tree ended with, or NoRun
    errorMutex,       \* the callers of addError that hold errorMutex
    calls,            \* the calls of addError in progress
    acquired,         \* the errors passed to addError, in the order in which
                      \* the calls locked errorMutex
    numCPU,           \* runtime.NumCPU(): the capacity sem was made with
    firstErr          \* the first error of a fail-fast run, or NoErr

\* what the steps of a directory run leave alone when addError is taken as
\* one step
aside == <<dirs, tree, first, errorMutex, calls, acquired, numCPU, firstErr>>

vars == <<prog, opts, files, stack, pc, units, sem, wg, collectedErrors,
          processedFiles, skippedFiles, movedFiles, failedFiles, summary, result,
          dirs, tree, first, errorMutex, calls, acquired, numCPU, firstErr>>

-----------------------------------------------------------------------------
(* Bounds of the model *)

\* runtime.NumCPU() of the machine the runs are checked on
maxGoroutines == 1

\* number of regular files in the initial tree
MaxFiles == 2

-----------------------------------------------------------------------------
(* The finite universe the inputs are drawn from *)

Exts == {".mp3", ".wav"}

Bases == {"a"}

\* the target extension: the default of the target flag
Targets == {".mp3"}

\* directories that WalkDir walks: the root and its subdirectory
WalkedDirs == {"src", "src/a.sub"}

\* the output directory: inside the walked tree, or outside it
OutDirs == {"src/a.sub", "out"}

AllDirs == WalkedDirs \cup OutDirs

\* no earlier run
NoRun == [ran |-> FALSE, processedFiles |-> 0, skippedFiles |-> 0,
          movedFiles |-> 0, failedFiles |-> 0, errors |-> 0]

\* no call of addError in progress
NoCalls == {}

NoSummary ==
    [printed |-> FALSE, converted |-> 0, moved |-> 0, skipped |-> 0,
     failed |-> 0, total |-> 0]

\* fileActionType
fileActionFail == 0
fileActionConvert == 1
fileActionMove == 2
fileActionSkip == 3

-----------------------------------------------------------------------------
(* Pure helpers *)

FileEntry(p) == [isDir |-> FALSE, path |-> p]

DirEntry(d) == [isDir |-> TRUE, path |-> [dir |-> d, base |-> "", ext |-> ""]]

\* position of an entry in the lexical order of its name:
\* "a.mp3" < "a.sub" < "a.wav"
NameRank(e) == IF e.isDir THEN 1 ELSE IF e.path.ext = ".mp3" THEN 0 ELSE 2

RECURSIVE SortedEntries(_)
SortedEntries(S) ==
    IF S = {} THEN <<>>
    ELSE LET m == CHOOSE e \in S : \A f \in S : NameRank(e) <= NameRank(f)
         IN  <<m>> \o SortedEntries(S \ {m})

\* subdirectories of a walked directory
SubDirs(d) == IF d = "src" THEN {DirEntry("src/a.sub")} ELSE {}

\* os.ReadDir(d): the entries of d sorted by file name
ReadDir(d) ==
    SortedEntries({FileEntry(p) : p \in {q \in files : q.dir = d}} \cup SubDirs(d))

\* ConvertFile: ext, fileName and outputPath
OutputPath(p) == [dir |-> opts.OutDir, base |-> p.base, ext |-> opts.TargetExtension]

Err(kind, p) == [kind |-> kind, path |-> p]

NoErr == [kind |-> "nil", path |-> [dir |-> "", base |-> "", ext |-> ""]]

\* a goroutine the walker has just started with go func(path)
NewUnit(p, at) ==
    [path |-> p, pc |-> at, called |-> FALSE, returned |-> FALSE,
     slot |-> FALSE, shouldProcess |-> FALSE,
     matchesSourceCriteria |-> FALSE, shouldConvert |-> FALSE,
     shouldMoveOrCopy |-> FALSE,
     fileAction |-> fileActionFail, err |-> NoErr, outcome |-> "none"]

\* the outcome of a file action, by the fileActionType ConvertFile returns
OutcomeOf(action) ==
    IF action = fileActionConvert THEN "Converted"
    ELSE IF action = fileActionMove THEN "Relocated"
    ELSE IF action = fileActionSkip THEN "Skipped"
    ELSE "Failed"

UnitIds == 1..Len(units)

SetUnit(i, u) == units' = [units EXCEPT ![i] = u]

\* number of goroutines between sem <- struct{}{} and <-sem
Holders == Cardinality({i \in UnitIds : units[i].slot})

-----------------------------------------------------------------------------
(* Initial states: a configuration and a directory tree *)

Configs ==
    {c \in [Sources : SUBSET Exts, Except : SUBSET Exts,
             TargetExtension : Targets, OutDir : OutDirs,
             DeleteOriginal : BOOLEAN, Quiet : BOOLEAN] :
        \* quiet runs only differ in what is logged: they are explored with
        \* the default filters
        c.Quiet => (c.Sources = {} /\ c.Except = {})}

Trees ==
    {T \in SUBSET [dir : WalkedDirs, base : Bases, ext : Exts] :
        Cardinality(T) >= 1 /\ Cardinality(T) <= MaxFiles}

\* the state after the set-up of a directory run of program p on a machine
\* with n CPUs
InitOn(p, n) ==
    /\ prog = p
    /\ numCPU = n
    /\ firstErr = NoErr
    /\ opts \in Configs
    /\ files \in Trees
    /\ stack = <<DirEntry("src")>>
    /\ pc = "walk"
    /\ units = <<>>
    /\ sem = 0
    /\ wg = 0
    /\ collectedErrors = <<>>
    /\ processedFiles = 0
    /\ skippedFiles = 0
    /\ movedFiles = 0
    /\ failedFiles = 0
    /\ summary = NoSummary
    /\ result = "running"
    /\ dirs = AllDirs
    /\ tree = files
    /\ first = NoRun
    /\ errorMutex = {}
    /\ calls = NoCalls
    /\ acquired = <<>>

InitRun(p) == InitOn(p, maxGoroutines)

InitDir == InitRun("ConvertDir")

-----------------------------------------------------------------------------
(* convert.ConvertDir: the walker (callback of filepath.WalkDir) *)

WalkAfterError_Halts(rest) == <<>>

\* after addError the callback returns nil, so WalkDir goes on with the
\* entries that remain
WalkAfterError(rest) == rest

\* WalkDir reaches a directory: the callback returns nil for it, then the
\* directory is read; if it cannot be opened the error is handed to the
\* callback, which records it and returns nil, and none of its entries is
\* walked.
DirWalkDirectory ==
    /\ prog = "ConvertDir" /\ pc = "walk"
    /\ stack # <<>> /\ Head(stack).isDir
    /\ LET d == Head(stack).path.dir
           all == ReadDir(d)
       IN  \E failed \in BOOLEAN :
             /\ stack' = IF failed
                          THEN WalkAfterError(Tail(stack))
                          ELSE all \o Tail(stack)
             /\ collectedErrors' =
                   IF failed
                   THEN Append(collectedErrors, Err("access", Head(stack).path))
                   ELSE collectedErrors
    /\ UNCHANGED <<aside, prog, opts, files, pc, units, sem, wg, processedFiles,
                   skippedFiles, movedFiles, failedFiles, summary, result>>

SpawnReady_AcquiresFirst == sem < numCPU

\* the go statement starts the goroutine without waiting for anything: the
\* send on sem is the goroutine's, not the walker's
SpawnReady == TRUE

\* WalkDir reaches a non-directory entry: wg.Add(1); go func(path)
DirVisitFile ==
    /\ prog = "ConvertDir" /\ pc = "walk"
    /\ stack # <<>> /\ ~Head(stack).isDir
    /\ SpawnReady
    /\ wg' = wg + 1
    /\ units' = Append(units, NewUnit(Head(stack).path, "acquire"))
    /\ stack' = Tail(stack)
    /\ UNCHANGED <<aside, prog, opts, files, pc, sem, collectedErrors, processedFiles,
                   skippedFiles, movedFiles, failedFiles, summary, result>>

\* WalkDir returns (nil: the callback never returns an error)
DirWalkReturn ==
    /\ prog = "ConvertDir" /\ pc = "walk"
    /\ stack = <<>>
    /\ pc' = "wait"
    /\ UNCHANGED <<aside, prog, opts, files, stack, units, sem, wg, collectedErrors,
                   processedFiles, skippedFiles, movedFiles, failedFiles,
                   summary, result>>

-----------------------------------------------------------------------------
(* convert.ConvertFile, run by the unit that called it *)

SameFile_Never(p) == FALSE

\* convertFileOpts.Path == outputPath
SameFile(p) == p = OutputPath(p)

\* ConvertFile up to its first filesystem operation: the choice of the branch
ConvertFileBegin(u) ==
    IF u.path.ext = opts.TargetExtension
    THEN IF SameFile(u.path)
         THEN [u EXCEPT !.called = TRUE, !.returned = TRUE,
                        !.fileAction = fileActionSkip, !.outcome = "Skipped",
                        !.pc = "stats"]
         ELSE [u EXCEPT !.called = TRUE, !.pc = "relocate"]
    ELSE [u EXCEPT !.called = TRUE, !.pc = "command"]

\* what ConvertFile returns: (err, fileAction); the caller goes on at
\* "adderr" when err is not nil and at "stats" otherwise
Return(u, err, action) ==
    [u EXCEPT !.returned = TRUE, !.err = err, !.fileAction = action,
              !.outcome = OutcomeOf(action),
              !.pc = IF err = NoErr THEN "stats" ELSE "adderr"]

Relocated_CopyThenRemove(p, out) == (files \ {p}) \cup {out}

\* the filesystem after os.Rename(p, out) if DeleteOriginal is set, after
\* copyFile(p, out) otherwise
Relocated(p, out) ==
    IF opts.DeleteOriginal THEN (files \ {p}) \cup {out} ELSE files \cup {out}

\* the file is already in the target format: os.Rename or copyFile
ConvertFileRelocate(i) ==
    /\ units[i].pc = "relocate"
    /\ LET u == units[i]
           p == u.path
           out == OutputPath(p)
       IN  \/ /\ p \in files /\ out.dir \in dirs
              /\ files' = Relocated(p, out)
              /\ SetUnit(i, Return(u, NoErr, fileActionMove))
           \/ /\ opts.DeleteOriginal
              /\ files' = files
              /\ SetUnit(i, Return(u, Err("move", p), fileActionFail))
           \/ \* copyFile fails: before os.Create, or in io.Copy after it
              /\ ~opts.DeleteOriginal
              /\ \E created \in BOOLEAN :
                    files' = IF created /\ p \in files /\ out.dir \in dirs
                             THEN files \cup {out}
                             ELSE files
              /\ SetUnit(i, Return(u, Err("copy", p), fileActionFail))
    /\ UNCHANGED <<aside, prog, opts, stack, pc, sem, wg, collectedErrors,
                   processedFiles, skippedFiles, movedFiles, failedFiles,
                   summary, result>>

DeleteOriginalSet_Always == TRUE

\* if convertFileOpts.DeleteOriginal (if deleteOriginalFile in main)
DeleteOriginalSet == opts.DeleteOriginal

\* generateConvertCommand and runCommand
ConvertFileCommand(i) ==
    /\ units[i].pc = "command"
    /\ LET u == units[i]
           p == u.path
           out == OutputPath(p)
       IN  \/ /\ files' = files
              /\ SetUnit(i, Return(u, Err("generate", p), fileActionFail))
           \/ /\ files' = files
              /\ SetUnit(i, Return(u, Err("convert", p), fileActionFail))
           \/ /\ p \in files /\ out.dir \in dirs
              /\ files' = files \cup {out}
              /\ IF DeleteOriginalSet
                 THEN SetUnit(i, [u EXCEPT !.pc = "remove"])
                 ELSE SetUnit(i, Return(u, NoErr, fileActionConvert))
    /\ UNCHANGED <<aside, prog, opts, stack, pc, sem, wg, collectedErrors,
                   processedFiles, skippedFiles, movedFiles, failedFiles,
                   summary, result>>

RemoveFailed_AsConverted(u) == Return(u, Err("delete", u.path), fileActionConvert)

\* os.Remove failed: return the error and fileActionFail
RemoveFailed(u) == Return(u, Err("delete", u.path), fileActionFail)

\* os.Remove of the original after a successful conversion
ConvertFileRemove(i) ==
    /\ units[i].pc = "remove"
    /\ LET u == units[i]
           p == u.path
       IN  \/ /\ p \in files
              /\ files' = files \ {p}
              /\ SetUnit(i, Return(u, NoErr, fileActionConvert))
           \/ /\ files' = files
              /\ SetUnit(i, RemoveFailed(u))
    /\ UNCHANGED <<aside, prog, opts, stack, pc, sem, wg, collectedErrors,
                   processedFiles, skippedFiles, movedFiles, failedFiles,
                   summary, result>>

-----------------------------------------------------------------------------
(* convert.ConvertDir: the goroutine started for each non-directory entry *)

CanAcquire_OffByOne == sem <= numCPU

CanAcquire_OneShort == sem < numCPU - 1

\* a send on the buffered channel sem proceeds while it holds fewer than
\* maxGoroutines = runtime.NumCPU() tokens
CanAcquire == sem < numCPU

\* the filter of ConvertDir
ShouldProcess(p) ==
    IF opts.TargetExtension \in opts.Sources
    THEN TRUE
    ELSE opts.TargetExtension \notin opts.Except

\* sem <- struct{}{}; then shouldProcess is computed and, if it is set,
\* ConvertFile is called (both read only the options and the unit's own path)
DirAcquire(i) ==
    /\ prog = "ConvertDir"
    /\ units[i].pc = "acquire"
    /\ CanAcquire
    /\ sem' = sem + 1
    /\ IF ShouldProcess(units[i].path)
       THEN SetUnit(i, ConvertFileBegin([units[i] EXCEPT !.slot = TRUE,
                                                         !.shouldProcess = TRUE]))
       ELSE SetUnit(i, [units[i] EXCEPT !.slot = TRUE, !.pc = "release"])
    /\ UNCHANGED <<aside, prog, opts, files, stack, pc, wg, collectedErrors,
                   processedFiles, skippedFiles, movedFiles, failedFiles,
                   summary, result>>

\* if err != nil { addError(err) }
DirAddError(i) ==
    /\ prog = "ConvertDir"
    /\ units[i].pc = "adderr"
    /\ collectedErrors' = Append(collectedErrors, units[i].err)
    /\ SetUnit(i, [units[i] EXCEPT !.pc = "stats"])
    /\ UNCHANGED <<aside, prog, opts, files, stack, pc, sem, wg, processedFiles,
                   skippedFiles, movedFiles, failedFiles, summary, result>>

SwitchCase_FallsThrough(counter, a, kind) == IF a <= kind THEN counter + 1 ELSE counter

\* one case of switch fileAction: the counter is incremented if the case is
\* the value of fileAction
SwitchCase(counter, a, kind) == IF a = kind THEN counter + 1 ELSE counter

\* statsMutex.Lock(); switch fileAction {...}; statsMutex.Unlock()
DirStats(i) ==
    /\ prog = "ConvertDir"
    /\ units[i].pc = "stats"
    /\ LET a == units[i].fileAction
       IN  /\ failedFiles' = SwitchCase(failedFiles, a, fileActionFail)
           /\ processedFiles' = SwitchCase(processedFiles, a, fileActionConvert)
           /\ movedFiles' = SwitchCase(movedFiles, a, fileActionMove)
           /\ skippedFiles' = SwitchCase(skippedFiles, a, fileActionSkip)
    /\ SetUnit(i, [units[i] EXCEPT !.pc = "release"])
    /\ UNCHANGED <<aside, prog, opts, files, stack, pc, sem, wg, collectedErrors,
                   summary, result>>

ReceiveFromSem_Keeps == sem

\* <-sem takes one token out of the channel
ReceiveFromSem == sem - 1

\* deferred func() { <-sem }()
DirRelease(i) ==
    /\ prog = "ConvertDir"
    /\ units[i].pc = "release"
    /\ sem' = ReceiveFromSem
    /\ SetUnit(i, [units[i] EXCEPT !.slot = FALSE, !.pc = "wgdone"])
    /\ UNCHANGED <<aside, prog, opts, files, stack, pc, wg, collectedErrors,
                   processedFiles, skippedFiles, movedFiles, failedFiles,
                   summary, result>>

\* deferred wg.Done()
DirDone(i) ==
    /\ prog = "ConvertDir"
    /\ units[i].pc = "wgdone"
    /\ wg' = wg - 1
    /\ SetUnit(i, [units[i] EXCEPT !.pc = "exit"])
    /\ UNCHANGED <<aside, prog, opts, files, stack, pc, sem, collectedErrors,
                   processedFiles, skippedFiles, movedFiles, failedFiles,
                   summary, result>>

-----------------------------------------------------------------------------
(* convert.ConvertDir: the join and the report *)

WaitReturns_Early == TRUE

\* wg.Wait() returns when the counter is zero
WaitReturns == wg = 0

DirWait ==
    /\ prog = "ConvertDir" /\ pc = "wait"
    /\ WaitReturns
    /\ pc' = "report"
    /\ UNCHANGED <<aside, prog, opts, files, stack, units, sem, wg, collectedErrors,
                   processedFiles, skippedFiles, movedFiles, failedFiles,
                   summary, result>>

\* the summary lines of the log
Summary ==
    [printed |-> TRUE, converted |-> processedFiles - failedFiles,
     moved |-> movedFiles, skipped |-> skippedFiles, failed |-> failedFiles,
     total |-> processedFiles + movedFiles + skippedFiles]

RunFailed_ByCounter == failedFiles > 0

\* len(collectedErrors) > 0
RunFailed == Len(collectedErrors) > 0

\* if len(collectedErrors) > 0 { ...; return error }; summary; return nil
DirReport ==
    /\ prog = "ConvertDir" /\ pc = "report"
    /\ IF RunFailed
       THEN /\ result' = "error"
            /\ summary' = summary
       ELSE /\ result' = "nil"
            /\ summary' = IF ~opts.Quiet THEN Summary ELSE summary
    /\ pc' = "done"
    /\ UNCHANGED <<aside, prog, opts, files, stack, units, sem, wg, collectedErrors,
                   processedFiles, skippedFiles, movedFiles, failedFiles>>

NextDir ==
    \/ DirWalkDirectory
    \/ DirVisitFile
    \/ DirWalkReturn
    \/ \E i \in UnitIds : DirAcquire(i)
    \/ \E i \in UnitIds : prog = "ConvertDir" /\ ConvertFileRelocate(i)
    \/ \E i \in UnitIds : prog = "ConvertDir" /\ ConvertFileCommand(i)
    \/ \E i \in UnitIds : prog = "ConvertDir" /\ ConvertFileRemove(i)
    \/ \E i \in UnitIds : DirAddError(i)
    \/ \E i \in UnitIds : DirStats(i)
    \/ \E i \in UnitIds : DirRelease(i)
    \/ \E i \in UnitIds : DirDone(i)
    \/ DirWait
    \/ DirReport

SpecDir == InitDir /\ [][NextDir]_vars

-----------------------------------------------------------------------------
(* src/main.go: the directory run *)

InitMain == InitRun("main")

MatchesSourceCriteria_NoPrecedence(ext) ==
    IF Cardinality(opts.Sources) > 0
    THEN ext \in opts.Sources /\ ext \notin opts.Except
    ELSE ext \notin opts.Except

\* matchesSourceCriteria
MatchesSourceCriteria(ext) ==
    IF Cardinality(opts.Sources) > 0
    THEN ext \in opts.Sources
    ELSE ext \notin opts.Except

\* WalkDir reaches a directory (see DirWalkDirectory); a read error goes to
\* addError
MainWalkDirectory ==
    /\ prog = "main" /\ pc = "walk"
    /\ stack # <<>> /\ Head(stack).isDir
    /\ LET d == Head(stack).path.dir
           all == ReadDir(d)
       IN  \E failed \in BOOLEAN :
             /\ stack' = IF failed
                          THEN WalkAfterError(Tail(stack))
                          ELSE all \o Tail(stack)
             /\ collectedErrors' =
                   IF failed
                   THEN Append(collectedErrors, Err("access", Head(stack).path))
                   ELSE collectedErrors
             /\ failedFiles' = IF failed THEN failedFiles + 1 ELSE failedFiles
    /\ UNCHANGED <<aside, prog, opts, files, pc, units, sem, wg, processedFiles,
                   skippedFiles, movedFiles, summary, result>>

\* the callback on a non-directory entry that does not match the source
\* criteria: skippedFiles++
MainVisitSkip ==
    /\ prog = "main" /\ pc = "walk"
    /\ stack # <<>> /\ ~Head(stack).isDir
    /\ LET p == Head(stack).path
       IN  /\ ~MatchesSourceCriteria(p.ext)
           /\ units' = Append(units, [NewUnit(p, "exit") EXCEPT !.outcome = "Skipped"])
    /\ skippedFiles' = skippedFiles + 1
    /\ stack' = Tail(stack)
    /\ UNCHANGED <<aside, prog, opts, files, pc, sem, wg, collectedErrors,
                   processedFiles, movedFiles, failedFiles, summary, result>>

\* the callback on a file to convert: processedFiles++; wg.Add(1); go func
MainVisitConvert ==
    /\ prog = "main" /\ pc = "walk"
    /\ stack # <<>> /\ ~Head(stack).isDir
    /\ LET p == Head(stack).path
       IN  /\ MatchesSourceCriteria(p.ext)
           /\ p.ext # opts.TargetExtension
           /\ units' = Append(units,
                 [NewUnit(p, "acquire") EXCEPT !.matchesSourceCriteria = TRUE,
                                               !.shouldConvert = TRUE])
    /\ processedFiles' = processedFiles + 1
    /\ wg' = wg + 1
    /\ stack' = Tail(stack)
    /\ UNCHANGED <<aside, prog, opts, files, pc, sem, collectedErrors, skippedFiles,
                   movedFiles, failedFiles, summary, result>>

\* the callback on a file already in the target format: skipped when it is
\* its own output path, else movedFiles++ and os.Rename or copyFile, run by
\* the walker itself; a failure goes to addError and the walk goes on
MainVisitMoveOrCopy ==
    /\ prog = "main" /\ pc = "walk"
    /\ stack # <<>> /\ ~Head(stack).isDir
    /\ LET p == Head(stack).path
           out == OutputPath(p)
           u == [NewUnit(p, "exit") EXCEPT !.matchesSourceCriteria = TRUE,
                                           !.shouldMoveOrCopy = TRUE]
       IN  /\ MatchesSourceCriteria(p.ext)
           /\ p.ext = opts.TargetExtension
           /\ \/ /\ SameFile(p)
                 /\ skippedFiles' = skippedFiles + 1
                 /\ units' = Append(units, [u EXCEPT !.outcome = "Skipped"])
                 /\ stack' = Tail(stack)
                 /\ UNCHANGED <<files, movedFiles, collectedErrors, failedFiles>>
              \/ /\ ~SameFile(p)
                 /\ movedFiles' = movedFiles + 1
                 /\ skippedFiles' = skippedFiles
                 /\ \/ /\ p \in files
                       /\ files' = Relocated(p, out)
                       /\ units' = Append(units, [u EXCEPT !.outcome = "Relocated"])
                       /\ stack' = Tail(stack)
                       /\ UNCHANGED <<collectedErrors, failedFiles>>
                    \/ /\ \E created \in BOOLEAN :
                            files' = IF created /\ ~opts.DeleteOriginal /\ p \in files
                                     THEN files \cup {out}
                                     ELSE files
                       /\ LET e == Err(IF opts.DeleteOriginal THEN "move" ELSE "copy", p)
                          IN  /\ units' = Append(units,
                                    [u EXCEPT !.outcome = "Failed", !.err = e])
                              /\ collectedErrors' = Append(collectedErrors, e)
                       /\ failedFiles' = failedFiles + 1
                       /\ stack' = WalkAfterError(Tail(stack))
    /\ UNCHANGED <<aside, prog, opts, pc, sem, wg, processedFiles, summary, result>>

\* WalkDir returns nil
MainWalkReturn ==
    /\ prog = "main" /\ pc = "walk"
    /\ stack = <<>>
    /\ pc' = "wait"
    /\ UNCHANGED <<aside, prog, opts, files, stack, units, sem, wg, collectedErrors,
                   processedFiles, skippedFiles, movedFiles, failedFiles,
                   summary, result>>

\* the conversion goroutine: sem <- struct{}{}; outputPath is computed
MainAcquire(i) ==
    /\ prog = "main"
    /\ units[i].pc = "acquire"
    /\ CanAcquire
    /\ sem' = sem + 1
    /\ SetUnit(i, [units[i] EXCEPT !.slot = TRUE, !.pc = "command"])
    /\ UNCHANGED <<aside, prog, opts, files, stack, pc, wg, collectedErrors,
                   processedFiles, skippedFiles, movedFiles, failedFiles,
                   summary, result>>

\* generateConvertCommand and runCommand
MainCommand(i) ==
    /\ prog = "main"
    /\ units[i].pc = "command"
    /\ LET u == units[i]
           p == u.path
       IN  \/ /\ files' = files
              /\ SetUnit(i, [u EXCEPT !.err = Err("generate", p),
                                      !.outcome = "Failed", !.pc = "adderr"])
           \/ /\ files' = files
              /\ SetUnit(i, [u EXCEPT !.err = Err("convert", p),
                                      !.outcome = "Failed", !.pc = "adderr"])
           \/ /\ p \in files
              /\ files' = files \cup {OutputPath(p)}
              /\ IF DeleteOriginalSet
                 THEN SetUnit(i, [u EXCEPT !.pc = "remove"])
                 ELSE SetUnit(i, [u EXCEPT !.outcome = "Converted", !.pc = "release"])
    /\ UNCHANGED <<aside, prog, opts, stack, pc, sem, wg, collectedErrors,
                   processedFiles, skippedFiles, movedFiles, failedFiles,
                   summary, result>>

\* os.Remove of the original
MainRemove(i) ==
    /\ prog = "main"
    /\ units[i].pc = "remove"
    /\ LET u == units[i]
           p == u.path
       IN  \/ /\ p \in files
              /\ files' = files \ {p}
              /\ SetUnit(i, [u EXCEPT !.outcome = "Converted", !.pc = "release"])
           \/ /\ files' = files
              /\ SetUnit(i, [u EXCEPT !.err = Err("delete", p),
                                      !.outcome = "Failed", !.pc = "adderr"])
    /\ UNCHANGED <<aside, prog, opts, stack, pc, sem, wg, collectedErrors,
                   processedFiles, skippedFiles, movedFiles, failedFiles,
                   summary, result>>

\* addError(...); return
MainAddError(i) ==
    /\ prog = "main"
    /\ units[i].pc = "adderr"
    /\ collectedErrors' = Append(collectedErrors, units[i].err)
    /\ failedFiles' = failedFiles + 1
    /\ SetUnit(i, [units[i] EXCEPT !.pc = "release"])
    /\ UNCHANGED <<aside, prog, opts, files, stack, pc, sem, wg, processedFiles,
                   skippedFiles, movedFiles, summary, result>>

\* deferred func() { <-sem }()
MainRelease(i) ==
    /\ prog = "main"
    /\ units[i].pc = "release"
    /\ sem' = ReceiveFromSem
    /\ SetUnit(i, [units[i] EXCEPT !.slot = FALSE, !.pc = "wgdone"])
    /\ UNCHANGED <<aside, prog, opts, files, stack, pc, wg, collectedErrors,
                   processedFiles, skippedFiles, movedFiles, failedFiles,
                   summary, result>>

\* deferred wg.Done()
MainDone(i) ==
    /\ prog = "main"
    /\ units[i].pc = "wgdone"
    /\ wg' = wg - 1
    /\ SetUnit(i, [units[i] EXCEPT !.pc = "exit"])
    /\ UNCHANGED <<aside, prog, opts, files, stack, pc, sem, collectedErrors,
                   processedFiles, skippedFiles, movedFiles, failedFiles,
                   summary, result>>

MainWait ==
    /\ prog = "main" /\ pc = "wait"
    /\ WaitReturns
    /\ pc' = "report"
    /\ UNCHANGED <<aside, prog, opts, files, stack, units, sem, wg, collectedErrors,
                   processedFiles, skippedFiles, movedFiles, failedFiles,
                   summary, result>>

\* the summary unless quiet; os.Exit(1) if len(collectedErrors) > 0
MainReport ==
    /\ prog = "main" /\ pc = "report"
    /\ summary' = IF ~opts.Quiet THEN Summary ELSE summary
    /\ result' = IF RunFailed THEN "exit 1" ELSE "exit 0"
    /\ pc' = "done"
    /\ UNCHANGED <<aside, prog, opts, files, stack, units, sem, wg, collectedErrors,
                   processedFiles, skippedFiles, movedFiles, failedFiles>>

NextMain ==
    \/ MainWalkDirectory
    \/ MainVisitSkip
    \/ MainVisitConvert
    \/ MainVisitMoveOrCopy
    \/ MainWalkReturn
    \/ \E i \in UnitIds : MainAcquire(i)
    \/ \E i \in UnitIds : MainCommand(i)
    \/ \E i \in UnitIds : MainRemove(i)
    \/ \E i \in UnitIds : MainAddError(i)
    \/ \E i \in UnitIds : MainRelease(i)
    \/ \E i \in UnitIds : MainDone(i)
    \/ MainWait
    \/ MainReport

SpecMain == InitMain /\ [][NextMain]_vars

-----------------------------------------------------------------------------
(* Both programs *)

Init == InitDir \/ InitMain

Next == NextDir \/ NextMain

Spec == Init /\ [][Next]_vars

-----------------------------------------------------------------------------
(* The command line: the Action of cmd.Run and the start of src/main.go *)

\* the files named by --files
ListedPaths == [dir : WalkedDirs, base : Bases, ext : Exts]

RECURSIVE FileLists(_)
FileLists(n) ==
    IF n = 0 THEN {<<>>}
    ELSE FileLists(n - 1) \cup
         {Append(l, p) : l \in {m \in FileLists(n - 1) : Len(m) = n - 1},
                         p \in ListedPaths}

\* the flags: --dir / -src, --files, --out-dir, --create-out-dir, --delete,
\* --except; the other flags keep their defaults
CmdConfigs ==
    {c \in [Sources : {{}}, Except : {{}, {".wav"}},
             TargetExtension : Targets, OutDir : OutDirs,
             DeleteOriginal : BOOLEAN, Quiet : {FALSE},
             Dir : {"", "src"}, Files : FileLists(MaxFiles),
             CreateOutDir : BOOLEAN] :
        /\ c.Dir # "" => c.Files = <<>>
        /\ c.Files # <<>> => c.Except = {}}

\* the directories that exist: the source directory with its subdirectory,
\* and the output directory outside it
DirSets == {D \in SUBSET AllDirs : \A d \in WalkedDirs : d \in D <=> "src" \in D}

InitCmd ==
    /\ prog \in {"Action", "main"}
    /\ opts \in CmdConfigs
    /\ prog = "main" => opts.Files = <<>>
    /\ dirs \in DirSets
    /\ files \in IF "src" \in dirs THEN Trees ELSE {{}}
    /\ tree = files
    /\ stack = <<>>
    /\ pc = "start"
    /\ units = <<>>
    /\ sem = 0
    /\ wg = 0
    /\ collectedErrors = <<>>
    /\ processedFiles = 0
    /\ skippedFiles = 0
    /\ movedFiles = 0
    /\ failedFiles = 0
    /\ summary = NoSummary
    /\ result = "running"
    /\ first = NoRun
    /\ errorMutex = {}
    /\ calls = NoCalls
    /\ acquired = <<>>
    /\ numCPU = maxGoroutines
    /\ firstErr = NoErr

Preflight_NoOutDirCheck ==
    IF opts.Dir \notin dirs
    THEN {[ok |-> FALSE, dirs |-> dirs]}
    ELSE {[ok |-> TRUE, dirs |-> dirs]}

\* the checks before the walk, as the set of their possible results: os.Stat
\* of the source directory, os.Stat of the output directory, os.MkdirAll of
\* the output directory if it does not exist and is to be created; os.Stat
\* and os.MkdirAll may also fail for another reason
Preflight ==
    IF opts.Dir \notin dirs
    THEN {[ok |-> FALSE, dirs |-> dirs]}
    ELSE {[ok |-> FALSE, dirs |-> dirs]} \cup
         (IF opts.OutDir \in dirs
          THEN {[ok |-> TRUE, dirs |-> dirs]}
          ELSE IF opts.CreateOutDir
               THEN {[ok |-> TRUE, dirs |-> dirs \cup {opts.OutDir}]}
               ELSE {})

\* the Action with --dir: the checks, then return convert.ConvertDir(...)
ActionDir ==
    /\ prog = "Action" /\ pc = "start"
    /\ opts.Dir # ""
    /\ \E o \in Preflight :
          /\ dirs' = o.dirs
          /\ IF o.ok
             THEN /\ prog' = "ConvertDir"
                  /\ pc' = "walk"
                  /\ stack' = <<DirEntry(opts.Dir)>>
                  /\ result' = result
             ELSE /\ prog' = prog
                  /\ pc' = "done"
                  /\ stack' = stack
                  /\ result' = "error"
    /\ UNCHANGED <<numCPU, firstErr, opts, files, units, sem, wg, collectedErrors, processedFiles,
                   skippedFiles, movedFiles, failedFiles, summary, tree, first,
                   errorMutex, calls, acquired>>

\* the Action without --dir: len(files) < 0 never holds, so the Action goes
\* on to the loop over the listed files
ActionFiles ==
    /\ prog = "Action" /\ pc = "start"
    /\ opts.Dir = ""
    /\ pc' = "files"
    /\ stack' = [k \in 1..Len(opts.Files) |-> FileEntry(opts.Files[k])]
    /\ UNCHANGED <<aside, prog, opts, files, units, sem, wg, collectedErrors,
                   processedFiles, skippedFiles, movedFiles, failedFiles,
                   summary, result>>

\* ConvertFile has returned for every file handed to it so far
NoCallInProgress == \A i \in UnitIds : units[i].pc = "exit"

\* for _, f := range files: err, _ := convert.ConvertFile(...)
ActionFilesCall ==
    /\ prog = "Action" /\ pc = "files"
    /\ stack # <<>>
    /\ NoCallInProgress
    /\ units' = Append(units, ConvertFileBegin(NewUnit(Head(stack).path, "acquire")))
    /\ stack' = Tail(stack)
    /\ UNCHANGED <<aside, prog, opts, files, pc, sem, wg, collectedErrors,
                   processedFiles, skippedFiles, movedFiles, failedFiles,
                   summary, result>>

\* if err != nil { errors = append(errors, err) }
ActionFilesCollect(i) ==
    /\ prog = "Action" /\ pc = "files"
    /\ units[i].pc \in {"adderr", "stats"}
    /\ collectedErrors' =
          IF units[i].pc = "adderr"
          THEN Append(collectedErrors, units[i].err)
          ELSE collectedErrors
    /\ SetUnit(i, [units[i] EXCEPT !.pc = "exit"])
    /\ UNCHANGED <<aside, prog, opts, files, stack, pc, sem, wg, processedFiles,
                   skippedFiles, movedFiles, failedFiles, summary, result>>

\* the loop is over: fmt.Errorf on each error (its value is dropped), then
\* return nil
ActionFilesReturn ==
    /\ prog = "Action" /\ pc = "files"
    /\ stack = <<>>
    /\ NoCallInProgress
    /\ result' = "nil"
    /\ pc' = "done"
    /\ UNCHANGED <<aside, prog, opts, files, stack, units, sem, wg,
                   collectedErrors, processedFiles, skippedFiles, movedFiles,
                   failedFiles, summary>>

\* main: log.Fatal if -src is empty or a check fails, else the walk
MainStart ==
    /\ prog = "main" /\ pc = "start"
    /\ \E o \in IF opts.Dir = "" THEN {[ok |-> FALSE, dirs |-> dirs]} ELSE Preflight :
          /\ dirs' = o.dirs
          /\ IF o.ok
             THEN /\ pc' = "walk"
                  /\ stack' = <<DirEntry(opts.Dir)>>
                  /\ result' = result
             ELSE /\ pc' = "done"
                  /\ stack' = stack
                  /\ result' = "exit 1"
    /\ UNCHANGED <<numCPU, firstErr, prog, opts, files, units, sem, wg, collectedErrors,
                   processedFiles, skippedFiles, movedFiles, failedFiles,
                   summary, tree, first, errorMutex, calls, acquired>>

NextCmd ==
    \/ ActionDir
    \/ ActionFiles
    \/ ActionFilesCall
    \/ \E i \in UnitIds : prog = "Action" /\ ConvertFileRelocate(i)
    \/ \E i \in UnitIds : prog = "Action" /\ ConvertFileCommand(i)
    \/ \E i \in UnitIds : prog = "Action" /\ ConvertFileRemove(i)
    \/ \E i \in UnitIds : ActionFilesCollect(i)
    \/ ActionFilesReturn
    \/ MainStart
    \/ NextDir
    \/ NextMain

SpecCmd == InitCmd /\ [][NextCmd]_vars

-----------------------------------------------------------------------------
(* Two runs of ConvertDir on the same tree with the same options *)

\* the options of the two runs: the default filters, both output directories
PairConfigs == {c \in Configs : c.Sources = {} /\ c.Except = {} /\ ~c.Quiet}

InitPair ==
    /\ InitDir
    /\ opts \in PairConfigs

\* what a run of ConvertDir ended with
RunRecord ==
    [ran |-> TRUE, processedFiles |-> processedFiles,
     skippedFiles |-> skippedFiles, movedFiles |-> movedFiles,
     failedFiles |-> failedFiles, errors |-> Len(collectedErrors)]

\* every file action of the run succeeded and every directory was read
AllSucceeded == collectedErrors = <<>> /\ failedFiles = 0

\* ConvertDir has returned from a run in which everything succeeded: its
\* result is kept, the tree is put back as it was, and ConvertDir is called
\* again with the same options
DirRunAgain ==
    /\ prog = "ConvertDir" /\ pc = "done"
    /\ ~first.ran
    /\ AllSucceeded
    /\ first' = RunRecord
    /\ files' = tree
    /\ stack' = <<DirEntry("src")>>
    /\ pc' = "walk"
    /\ units' = <<>>
    /\ processedFiles' = 0
    /\ skippedFiles' = 0
    /\ movedFiles' = 0
    /\ failedFiles' = 0
    /\ summary' = NoSummary
    /\ result' = "running"
    /\ UNCHANGED <<numCPU, firstErr, prog, opts, sem, wg, collectedErrors, dirs, tree,
                   errorMutex, calls, acquired>>

NextPair ==
    \/ NextDir
    \/ DirRunAgain

SpecPair == InitPair /\ [][NextPair]_vars

-----------------------------------------------------------------------------
(* addError step by step: errorMutex.Lock, the append, errorMutex.Unlock.     *)
(* The caller is 0 for the goroutine that runs WalkDir and i for unit i.      *)

\* the options of these runs: no allow-list, not quiet
MutexConfigs ==
    {c \in Configs : c.Sources = {} /\ c.Except \subseteq {".wav"} /\ ~c.Quiet}

InitMutex ==
    /\ Init
    /\ opts \in MutexConfigs

\* addError(e) has just been called by the caller
NewCall(caller, e) == [caller |-> caller, err |-> e, pc |-> "lock", local |-> <<>>]

\* the call goes on at the given position
Goes(r, at) == calls' = (calls \ {r}) \cup {[r EXCEPT !.pc = at]}

\* WalkDir reaches a directory (see DirWalkDirectory); a read error is passed
\* to addError by the callback
MutexWalkDirectory ==
    /\ pc = "walk"
    /\ stack # <<>> /\ Head(stack).isDir
    /\ LET d == Head(stack).path.dir
           all == ReadDir(d)
       IN  \E failed \in BOOLEAN :
             IF failed
             THEN /\ stack' = WalkAfterError(Tail(stack))
                  /\ pc' = "adderr"
                  /\ calls' = calls \cup {NewCall(0, Err("access", Head(stack).path))}
             ELSE /\ stack' = all \o Tail(stack)
                  /\ UNCHANGED <<pc, calls>>
    /\ UNCHANGED <<numCPU, firstErr, prog, opts, files, units, sem, wg, collectedErrors,
                   processedFiles, skippedFiles, movedFiles, failedFiles,
                   summary, result, dirs, tree, first, errorMutex, acquired>>

\* the callback of main on a file already in the target format (see
\* MainVisitMoveOrCopy); a failed os.Rename or copyFile is passed to addError
MutexMainVisitMoveOrCopy ==
    /\ prog = "main" /\ pc = "walk"
    /\ stack # <<>> /\ ~Head(stack).isDir
    /\ LET p == Head(stack).path
           out == OutputPath(p)
           u == [NewUnit(p, "exit") EXCEPT !.matchesSourceCriteria = TRUE,
                                           !.shouldMoveOrCopy = TRUE]
       IN  /\ MatchesSourceCriteria(p.ext)
           /\ p.ext = opts.TargetExtension
           /\ \/ /\ SameFile(p)
                 /\ skippedFiles' = skippedFiles + 1
                 /\ units' = Append(units, [u EXCEPT !.outcome = "Skipped"])
                 /\ stack' = Tail(stack)
                 /\ UNCHANGED <<files, movedFiles, pc, calls>>
              \/ /\ ~SameFile(p)
                 /\ movedFiles' = movedFiles + 1
                 /\ skippedFiles' = skippedFiles
                 /\ \/ /\ p \in files
                       /\ files' = Relocated(p, out)
                       /\ units' = Append(units, [u EXCEPT !.outcome = "Relocated"])
                       /\ stack' = Tail(stack)
                       /\ UNCHANGED <<pc, calls>>
                    \/ /\ \E created \in BOOLEAN :
                            files' = IF created /\ ~opts.DeleteOriginal /\ p \in files
                                     THEN files \cup {out}
                                     ELSE files
                       /\ LET e == Err(IF opts.DeleteOriginal THEN "move" ELSE "copy", p)
                          IN  /\ units' = Append(units,
                                    [u EXCEPT !.outcome = "Failed", !.err = e])
                              /\ calls' = calls \cup {NewCall(0, e)}
                       /\ pc' = "adderr"
                       /\ stack' = WalkAfterError(Tail(stack))
    /\ UNCHANGED <<numCPU, firstErr, prog, opts, sem, wg, processedFiles, collectedErrors,
                   failedFiles, summary, result, dirs, tree, first, errorMutex,
                   acquired>>

\* a unit calls addError(err)
MutexUnitCall(i) ==
    /\ units[i].pc = "adderr"
    /\ calls' = calls \cup {NewCall(i, units[i].err)}
    /\ SetUnit(i, [units[i] EXCEPT !.pc = "addError"])
    /\ UNCHANGED <<numCPU, firstErr, prog, opts, files, stack, pc, sem, wg, collectedErrors,
                   processedFiles, skippedFiles, movedFiles, failedFiles,
                   summary, result, dirs, tree, first, errorMutex, acquired>>

MutexFree_Unlocked == TRUE

\* errorMutex.Lock() returns when no caller holds the mutex
MutexFree == errorMutex = {}

\* errorMutex.Lock()
AddErrorLock(r) ==
    /\ r.pc = "lock"
    /\ MutexFree
    /\ errorMutex' = errorMutex \cup {r.caller}
    /\ acquired' = Append(acquired, r.err)
    /\ Goes(r, "load")
    /\ UNCHANGED <<numCPU, firstErr, prog, opts, files, stack, pc, units, sem, wg, collectedErrors,
                   processedFiles, skippedFiles, movedFiles, failedFiles,
                   summary, result, dirs, tree, first>>

\* append(collectedErrors, err): the slice is read
AddErrorLoad(r) ==
    /\ r.pc = "load"
    /\ calls' = (calls \ {r}) \cup {[r EXCEPT !.pc = "store", !.local = collectedErrors]}
    /\ UNCHANGED <<numCPU, firstErr, prog, opts, files, stack, pc, units, sem, wg, collectedErrors,
                   processedFiles, skippedFiles, movedFiles, failedFiles,
                   summary, result, dirs, tree, first, errorMutex, acquired>>

\* collectedErrors = append(...): the slice with the error added is stored
AddErrorStore(r) ==
    /\ r.pc = "store"
    /\ collectedErrors' = Append(r.local, r.err)
    /\ calls' = (calls \ {r}) \cup {[r EXCEPT !.pc = "unlock", !.local = <<>>]}
    /\ UNCHANGED <<numCPU, firstErr, prog, opts, files, stack, pc, units, sem, wg,
                   processedFiles, skippedFiles, movedFiles, failedFiles,
                   summary, result, dirs, tree, first, errorMutex, acquired>>

\* addError returns to its caller: the walker goes on with the walk, the
\* unit of ConvertDir with the switch on fileAction, the unit of main returns
Resume(r) ==
    /\ calls' = calls \ {r}
    /\ IF r.caller = 0
       THEN /\ pc' = "walk"
            /\ units' = units
       ELSE /\ pc' = pc
            /\ SetUnit(r.caller,
                  [units[r.caller] EXCEPT
                      !.pc = IF prog = "main" THEN "release" ELSE "stats"])

\* errorMutex.Unlock(); in ConvertDir addError returns, in main it goes on
\* to count the error
AddErrorUnlock(r) ==
    /\ r.pc = "unlock"
    /\ errorMutex' = errorMutex \ {r.caller}
    /\ IF prog = "main"
       THEN Goes(r, "count") /\ UNCHANGED <<pc, units>>
       ELSE Resume(r)
    /\ UNCHANGED <<numCPU, firstErr, prog, opts, files, stack, sem, wg, collectedErrors,
                   processedFiles, skippedFiles, movedFiles, failedFiles,
                   summary, result, dirs, tree, first, acquired>>

\* main: statsMutex.Lock(); failedFiles++; statsMutex.Unlock()
AddErrorCount(r) ==
    /\ prog = "main"
    /\ r.pc = "count"
    /\ failedFiles' = failedFiles + 1
    /\ Resume(r)
    /\ UNCHANGED <<numCPU, firstErr, prog, opts, files, stack, sem, wg, collectedErrors,
                   processedFiles, skippedFiles, movedFiles, summary, result,
                   dirs, tree, first, errorMutex, acquired>>

NextMutex ==
    \/ MutexWalkDirectory
    \/ DirVisitFile
    \/ DirWalkReturn
    \/ \E i \in UnitIds : DirAcquire(i)
    \/ \E i \in UnitIds : prog = "ConvertDir" /\ ConvertFileRelocate(i)
    \/ \E i \in UnitIds : prog = "ConvertDir" /\ ConvertFileCommand(i)
    \/ \E i \in UnitIds : prog = "ConvertDir" /\ ConvertFileRemove(i)
    \/ \E i \in UnitIds : DirStats(i)
    \/ \E i \in UnitIds : DirRelease(i)
    \/ \E i \in UnitIds : DirDone(i)
    \/ DirWait
    \/ DirReport
    \/ MainVisitSkip
    \/ MainVisitConvert
    \/ MutexMainVisitMoveOrCopy
    \/ MainWalkReturn
    \/ \E i \in UnitIds : MainAcquire(i)
    \/ \E i \in UnitIds : MainCommand(i)
    \/ \E i \in UnitIds : MainRemove(i)
    \/ \E i \in UnitIds : MainRelease(i)
    \/ \E i \in UnitIds : MainDone(i)
    \/ MainWait
    \/ MainReport
    \/ \E i \in UnitIds : MutexUnitCall(i)
    \/ \E r \in calls : AddErrorLock(r)
    \/ \E r \in calls : AddErrorLoad(r)
    \/ \E r \in calls : AddErrorStore(r)
    \/ \E r \in calls : AddErrorUnlock(r)
    \/ \E r \in calls : AddErrorCount(r)

SpecMutex == InitMutex /\ [][NextMutex]_vars

-----------------------------------------------------------------------------
(* ConvertDir under a fair scheduler *)

\* a goroutine that can run is eventually run, and every call made by
\* ConvertFile returns: some step of the run is taken as long as one is possible
SpecLive == InitPair /\ [][NextDir]_vars /\ WF_vars(NextDir)

-----------------------------------------------------------------------------
(* Claims *)

\* units whose action ended with the given outcome
WithOutcome(o) == {i \in UnitIds : units[i].outcome = o}

\* traversal errors recorded so far
AccessErrors == {k \in 1..Len(collectedErrors) : collectedErrors[k].kind = "access"}

\* the unit was found eligible by the filter of its program
Eligible(u) == u.shouldProcess \/ u.matchesSourceCriteria

\* the walker only ever takes the head off the pending entries, and a
\* non-directory head becomes a unit
WalkerKeepsEntries ==
    stack' # stack =>
        /\ stack # <<>>
        /\ Len(stack') >= Len(stack) - 1
        /\ SubSeq(stack', Len(stack') - Len(stack) + 2, Len(stack')) = Tail(stack)
        /\ ~Head(stack).isDir =>
              /\ Len(units') = Len(units) + 1
              /\ units'[Len(units')].path = Head(stack).path

\* C1: a failing file action or an unreadable directory never stops the
\* run: no entry still to be walked is ever dropped, every non-directory
\* entry becomes a unit, and when the run ends the walk is complete, every
\* unit has finished and every eligible unit has the outcome of its action.
C1_FailureNeverStopsRun ==
    /\ [][WalkerKeepsEntries]_vars
    /\ [](pc = "done" =>
            /\ stack = <<>>
            /\ \A i \in UnitIds :
                  /\ units[i].pc = "exit"
                  /\ Eligible(units[i]) => units[i].outcome # "none")

\* C1 witness: a run that ended with a traversal error and a failed file,
\* and a file visited after the failed one whose action succeeded
C1_Witness ==
    /\ pc = "done"
    /\ AccessErrors # {}
    /\ \E i, j \in UnitIds :
          /\ i < j
          /\ units[i].outcome = "Failed"
          /\ units[j].outcome \in {"Converted", "Relocated"}

\* C2: in ConvertDir the number of units between acquiring and releasing a
\* slot never exceeds the capacity of the semaphore.
C2_AtMostNHolders ==
    prog = "ConvertDir" => Holders <= maxGoroutines

\* C2 witness: every slot is held while another unit waits for one
C2_Witness ==
    /\ prog = "ConvertDir"
    /\ Holders = maxGoroutines
    /\ \E i \in UnitIds : units[i].pc = "acquire"

\* C3: after the join of ConvertDir the four counters add up to the number
\* of non-directory entries visited (filtered files counted as skipped).
C3_CountersSumToVisited ==
    (prog = "ConvertDir" /\ pc \in {"report", "done"}) =>
        processedFiles + movedFiles + skippedFiles + failedFiles = Len(units)

\* some error happened in the run: a traversal error or a failed file action
ErrorsOccurred == AccessErrors # {} \/ WithOutcome("Failed") # {}

\* C4: ConvertDir returns an error, and main exits with status 1, exactly
\* when a traversal error or a failed file action occurred in the run.
C4_FailsIffErrors ==
    pc = "done" =>
        /\ prog = "ConvertDir" => (result = "error" <=> ErrorsOccurred)
        /\ prog = "ConvertDir" => (result = "nil" <=> ~ErrorsOccurred)
        /\ prog = "main" => (result = "exit 1" <=> ErrorsOccurred)
        /\ prog = "main" => (result = "exit 0" <=> ~ErrorsOccurred)
        /\ ErrorsOccurred <=> Len(collectedErrors) > 0

\* C4 witness: ConvertDir returned an error for a run with a single
\* traversal error, in which every file action succeeded
C4_Witness ==
    /\ pc = "done" /\ prog = "ConvertDir" /\ result = "error"
    /\ WithOutcome("Failed") = {}
    /\ WithOutcome("Converted") # {}

\* the reference classifier
RefEligible(ext) ==
    IF opts.Sources # {} THEN ext \in opts.Sources ELSE ext \notin opts.Except

RefDecision(ext) ==
    IF ~RefEligible(ext) THEN "Skip"
    ELSE IF ext = opts.TargetExtension THEN "Relocate"
    ELSE "Convert"

\* the decisions the callback of main took for a file
CodeDecisions(u) ==
    {d \in {"Convert", "Relocate", "Skip"} :
        \/ d = "Convert" /\ u.shouldConvert
        \/ d = "Relocate" /\ u.shouldMoveOrCopy
        \/ d = "Skip" /\ ~u.matchesSourceCriteria}

\* C5: in main every visited file gets exactly one decision, the one of the
\* reference classifier.
C5_ClassifierMatchesReference ==
    prog = "main" =>
        \A i \in UnitIds : CodeDecisions(units[i]) = {RefDecision(units[i].path.ext)}

\* C5 witness: one walk in which a file is skipped by the allow-list although
\* the deny-list does not name it, and another file is converted
C5_Witness ==
    /\ prog = "main"
    /\ opts.Sources # {} /\ opts.Except # {}
    /\ \E i, j \in UnitIds :
          /\ CodeDecisions(units[i]) = {"Skip"}
          /\ units[i].path.ext \notin opts.Except
          /\ CodeDecisions(units[j]) \in {{"Convert"}, {"Relocate"}}
          /\ units[j].path.ext \in opts.Except

\* the unit is past the filter of ConvertDir
Classified(u) == u.pc # "acquire"

\* C6: in ConvertDir with a non-empty Sources, a file is passed to
\* ConvertFile exactly when its own extension is in Sources.
C6_SourcesDecide ==
    (prog = "ConvertDir" /\ opts.Sources # {}) =>
        \A i \in UnitIds :
            Classified(units[i]) =>
                (units[i].called <=> units[i].path.ext \in opts.Sources)

\* C7: in ConvertDir with an empty Sources and a non-empty Except, a file is
\* passed to ConvertFile exactly when its own extension is not in Except.
C7_ExceptDecides ==
    (prog = "ConvertDir" /\ opts.Sources = {} /\ opts.Except # {}) =>
        \A i \in UnitIds :
            Classified(units[i]) =>
                (units[i].called <=> units[i].path.ext \notin opts.Except)

\* C8: the summary of main reports the actual outcomes: converted is the
\* number of successful conversions (never negative), moved/copied the number
\* of successful relocations, skipped the number of skipped files and failed
\* the number of files whose action failed.
C8_SummaryMatchesOutcomes ==
    (prog = "main" /\ summary.printed) =>
        /\ summary.converted = Cardinality(WithOutcome("Converted"))
        /\ summary.converted >= 0
        /\ summary.moved = Cardinality(WithOutcome("Relocated"))
        /\ summary.skipped = Cardinality(WithOutcome("Skipped"))
        /\ summary.failed = Cardinality(WithOutcome("Failed"))

\* C9: with Quiet unset ConvertDir reports the summary at the end of every
\* run, also when errors were collected.
C9_SummaryAlwaysReported ==
    (prog = "ConvertDir" /\ pc = "done" /\ ~opts.Quiet) => summary.printed

\* C10: in ConvertDir every traversal error is counted as a failed outcome,
\* so that at the join failedFiles is the number of collected errors.
C10_TraversalErrorCounted ==
    prog = "ConvertDir" =>
        /\ pc = "walk" => failedFiles >= Cardinality(AccessErrors)
        /\ pc \in {"report", "done"} => failedFiles = Len(collectedErrors)

\* the files a step takes off the filesystem
RemovedByStep == files \ files'

\* a unit reaches os.Remove only from a transcode that has just succeeded,
\* with delete-original set, and never starts its command again
ReachesRemoveOnce ==
    \A i \in UnitIds :
        /\ (units'[i].pc = "remove" /\ units[i].pc # "remove") =>
              /\ units[i].pc = "command"
              /\ opts.DeleteOriginal
              /\ OutputPath(units[i].path) \in files'
        /\ (units'[i].pc = "command" /\ units[i].pc # "command") =>
              units[i].pc = "acquire"

\* a step removes at most one file; a file that needs conversion is removed
\* only by the os.Remove of the unit processing it, with delete-original set
RemovesOnlyOwnSource ==
    \A p \in RemovedByStep :
        /\ opts.DeleteOriginal
        /\ RemovedByStep = {p}
        /\ p.ext # opts.TargetExtension =>
              \E i \in UnitIds :
                  /\ units[i].path = p
                  /\ units[i].pc = "remove"
                  /\ units'[i].pc # "remove"
                  /\ units'[i].outcome = "Converted"

\* C11: a source file is removed only with delete-original set, after its
\* own transcode succeeded, at most once and by the unit processing it; when
\* command generation or the transcode fails the outcome is Failed and the
\* source file still exists.
C11_RemoveOnlyAfterOwnTranscode ==
    /\ [][ReachesRemoveOnce /\ RemovesOnlyOwnSource]_vars
    /\ [](\A i \in UnitIds :
            /\ units[i].pc = "remove" => opts.DeleteOriginal
            /\ units[i].err.kind \in {"generate", "convert"} =>
                  /\ units[i].outcome = "Failed"
                  /\ units[i].path \in files)

\* C11 witness: with delete-original set, one converted file whose source is
\* gone and one file whose transcode failed and whose source still exists
C11_Witness ==
    /\ opts.DeleteOriginal
    /\ \E i, j \in UnitIds :
          /\ units[i].outcome = "Converted"
          /\ units[i].path \notin files
          /\ OutputPath(units[i].path) \in files
          /\ units[j].err.kind = "convert"
          /\ units[j].path \in files

\* the unit's file is in the target format and is its own output path
AlreadyInPlace(u) ==
    u.path.ext = opts.TargetExtension /\ u.path = OutputPath(u.path)

\* the step in which ConvertFile is called on a file already in place, or in
\* which the callback of main meets such a file, leaves the filesystem alone
SkipTouchesNothing ==
    /\ \A i \in UnitIds :
          (~units[i].called /\ units'[i].called /\ AlreadyInPlace(units[i])) =>
              files' = files
    /\ (Len(units') = Len(units) + 1 /\ AlreadyInPlace(units'[Len(units')])) =>
          files' = files

\* C12: ConvertFile on a file in the target format whose path is its output
\* path returns (nil, fileActionSkip) and performs no filesystem operation,
\* whatever DeleteOriginal is; the same holds for the callback of main.
C12_SkipInPlace ==
    /\ [][SkipTouchesNothing]_vars
    /\ [](\A i \in UnitIds :
            /\ (units[i].called /\ AlreadyInPlace(units[i])) =>
                  /\ units[i].returned
                  /\ units[i].err = NoErr
                  /\ units[i].fileAction = fileActionSkip
                  /\ units[i].outcome = "Skipped"
                  /\ units[i].path \in files
            /\ (units[i].shouldMoveOrCopy /\ AlreadyInPlace(units[i])) =>
                  /\ units[i].err = NoErr
                  /\ units[i].outcome = "Skipped"
                  /\ units[i].path \in files)

\* C12 witness: with DeleteOriginal set, ConvertFile skipped a file that lies
\* in the output directory and relocated another one
C12_Witness ==
    /\ prog = "ConvertDir" /\ opts.DeleteOriginal
    /\ \E i, j \in UnitIds :
          /\ units[i].called /\ AlreadyInPlace(units[i])
          /\ units[i].fileAction = fileActionSkip
          /\ units[j].returned /\ units[j].fileAction = fileActionMove

\* the step in which ConvertFile returns fileActionMove: the output exists,
\* the source exists exactly when DeleteOriginal is unset
RelocateEffect ==
    \A i \in UnitIds :
        (units[i].pc = "relocate" /\ units'[i].returned
            /\ units'[i].fileAction = fileActionMove) =>
              /\ units[i].path # OutputPath(units[i].path)
              /\ OutputPath(units[i].path) \in files'
              /\ units[i].path \in files' <=> ~opts.DeleteOriginal

\* C13: after a successful relocation by ConvertFile the output path exists
\* and the source still exists exactly when DeleteOriginal is unset; with
\* DeleteOriginal unset no step ever removes a file.
C13_RelocateKeepsOrRenames ==
    /\ [][RelocateEffect /\ (~opts.DeleteOriginal => files \subseteq files')]_vars
    /\ [](~opts.DeleteOriginal => \A i \in UnitIds : units[i].path \in files)

\* C13 witness: a file copied to the output directory, source still there
C13_Witness ==
    /\ prog = "ConvertDir" /\ ~opts.DeleteOriginal
    /\ \E i \in UnitIds :
          /\ units[i].returned /\ units[i].fileAction = fileActionMove
          /\ units[i].path # OutputPath(units[i].path)
          /\ units[i].path \in files
          /\ OutputPath(units[i].path) \in files

\* the unit's conversion succeeded and the removal of its original failed
DeleteFailed(u) == u.err.kind = "delete"

\* occurrences of an error in the error list
Occurrences(e) == {k \in 1..Len(collectedErrors) : collectedErrors[k] = e}

\* the stats step of a unit whose removal failed counts it as failed only
CountsDeleteFailureAsFailed ==
    \A i \in UnitIds :
        (DeleteFailed(units[i]) /\ units[i].pc = "stats" /\ units'[i].pc # "stats") =>
            /\ failedFiles' = failedFiles + 1
            /\ UNCHANGED <<processedFiles, movedFiles, skippedFiles>>

\* C14: when the conversion succeeds and the removal of the original fails,
\* ConvertFile returns an error with fileActionFail, ConvertDir appends the
\* error once, increments only failedFiles, and returns an error.
C14_DeleteFailureIsFailed ==
    /\ [][CountsDeleteFailureAsFailed]_vars
    /\ [](prog = "ConvertDir" =>
            \A i \in UnitIds :
                DeleteFailed(units[i]) =>
                    /\ opts.DeleteOriginal
                    /\ units[i].returned
                    /\ units[i].fileAction = fileActionFail
                    /\ units[i].outcome = "Failed"
                    /\ OutputPath(units[i].path) \in files
                    /\ units[i].pc \in {"stats", "release", "wgdone", "exit"} =>
                          Cardinality(Occurrences(units[i].err)) = 1
                    /\ units[i].pc \in {"release", "wgdone", "exit"} => failedFiles >= 1
                    /\ pc = "done" => result = "error")

\* C14 witness: a run of ConvertDir with one file, converted but not removed:
\* one error, failedFiles = 1, nothing counted as converted, error returned
C14_Witness ==
    /\ prog = "ConvertDir" /\ pc = "done" /\ result = "error"
    /\ Len(units) = 1 /\ DeleteFailed(units[1])
    /\ Len(collectedErrors) = 1
    /\ failedFiles = 1 /\ processedFiles = 0

\* the driver is past wg.Wait: it reads the error list and the counters
DriverReads == pc \in {"report", "done"}

\* units that were dispatched and have not yet called wg.Done
Pending == {i \in UnitIds : units[i].pc # "exit"}

\* once the driver reads, nothing it reads changes any more; the report is
\* made once; wg.Wait returns only after the walk has returned
FrozenAfterJoin ==
    /\ DriverReads =>
          UNCHANGED <<units, collectedErrors, processedFiles, skippedFiles,
                      movedFiles, failedFiles, wg, stack>>
    /\ pc = "done" => UNCHANGED <<summary, result>>
    /\ (pc # "report" /\ pc' = "report") => (pc = "wait" /\ stack = <<>>)

\* C18: the driver reads the error list and the counters only after the walk
\* has returned and every dispatched unit has called wg.Done; the WaitGroup
\* counts the dispatched units that are not done, so wg.Wait cannot return
\* earlier, and nothing is appended or counted once the driver reads.
C18_ReadAfterJoin ==
    /\ [][FrozenAfterJoin]_vars
    /\ [](/\ wg = Cardinality(Pending)
          /\ pc # "walk" => stack = <<>>
          /\ DriverReads => (wg = 0 /\ Pending = {}))

\* C18 witness: the walk has returned and the driver is blocked in wg.Wait
\* while a unit still has its error to append
C18_Witness ==
    /\ pc = "wait" /\ wg > 0
    /\ \E i \in UnitIds : units[i].pc = "adderr"

\* the positions of a unit between sem <- struct{}{} and <-sem
Holding(u) == u.pc \in {"relocate", "command", "remove", "adderr", "stats", "release"}

\* a slot is taken only by a unit that waits for one and given back only by
\* the unit that holds it, one token at a time; a unit that has given its
\* slot back never takes one again
SlotDiscipline ==
    /\ \A i \in UnitIds :
          /\ (~units[i].slot /\ units'[i].slot) =>
                (units[i].pc = "acquire" /\ sem' = sem + 1)
          /\ (units[i].slot /\ ~units'[i].slot) =>
                (units[i].pc = "release" /\ units'[i].pc = "wgdone" /\ sem' = sem - 1)
          /\ units[i].pc \in {"wgdone", "exit"} => units'[i].pc \in {"wgdone", "exit"}
    /\ sem' > sem => \E i \in UnitIds : ~units[i].slot /\ units'[i].slot
    /\ sem' < sem => \E i \in UnitIds : units[i].slot /\ ~units'[i].slot

\* C20: in ConvertDir every unit that took a slot gives it back exactly once,
\* whatever ConvertFile returned; the tokens in sem are the units between
\* acquire and release, and there is none left when wg.Wait has returned.
C20_SlotsReleased ==
    /\ [][prog = "ConvertDir" => SlotDiscipline]_vars
    /\ [](prog = "ConvertDir" =>
            /\ sem = Holders
            /\ \A i \in UnitIds : units[i].slot <=> Holding(units[i])
            /\ DriverReads => sem = 0)

\* C20 witness: wg.Wait has returned with no token left after two units, one
\* of which got an error from ConvertFile
C20_Witness ==
    /\ prog = "ConvertDir" /\ pc = "report" /\ sem = 0
    /\ Len(units) = 2
    /\ units[1].called /\ units[1].outcome = "Failed"
    /\ units[2].called /\ units[2].outcome = "Converted"

\* a directory run whose source directory does not exist, or whose output
\* directory does not exist and is not to be created
StartFails ==
    /\ opts.Dir # ""
    /\ \/ opts.Dir \notin dirs
       \/ opts.OutDir \notin dirs /\ ~opts.CreateOutDir

\* C15: a directory run of the Action or of main whose source directory does
\* not exist, or whose output directory does not exist with auto-create
\* disabled, fails before the walk: ConvertDir is never called, no directory
\* is created, no file is visited and the filesystem stays as it was.
C15_FailsBeforeWalk ==
    /\ [][StartFails => UNCHANGED <<dirs, files, units, stack>>]_vars
    /\ [](StartFails =>
            /\ prog \in {"Action", "main"}
            /\ pc \in {"start", "done"}
            /\ units = <<>> /\ stack = <<>>
            /\ files = tree
            /\ pc = "done" => result = IF prog = "Action" THEN "error" ELSE "exit 1")

\* C15 witness: the Action returned an error for an existing source
\* directory with files in it and a missing output directory
C15_Witness ==
    /\ prog = "Action" /\ pc = "done" /\ result = "error"
    /\ opts.Dir \in dirs /\ files # {}
    /\ opts.OutDir \notin dirs /\ ~opts.CreateOutDir

\* the Action was run with --files and without --dir
FilesMode == prog = "Action" /\ opts.Dir = ""

\* C16: in files mode every listed file is attempted, and the Action returns
\* an error if ConvertFile returned an error for at least one of them.
C16_FilesModeSignalsFailure ==
    (FilesMode /\ pc = "done") =>
        /\ Len(units) = Len(opts.Files)
        /\ (\E i \in UnitIds : units[i].err # NoErr) => result = "error"

\* C17: two runs of ConvertDir on the same initial tree with the same
\* options, in both of which every file action succeeds, end with the same
\* counters and the same number of errors, whatever the interleaving of the
\* walker and the workers.
C17_CountersDeterministic ==
    (prog = "ConvertDir" /\ pc = "done" /\ first.ran /\ AllSucceeded) =>
        RunRecord = first

\* the calls of addError that hold the mutex and have not stored yet
Storing == {r \in calls : r.pc \in {"load", "store"}}

\* the calls of addError that have not stored yet
NotStored == {r \in calls : r.pc \in {"lock", "load", "store"}}

\* the entries of the error list are pairwise different errors
NoDuplicates ==
    \A k, l \in 1..Len(collectedErrors) :
        collectedErrors[k] = collectedErrors[l] => k = l

\* the units whose error has been passed to addError
Reported == {i \in UnitIds : units[i].err # NoErr /\ units[i].pc # "adderr"}

\* C19: whatever the interleaving of the walker and the workers in
\* addError, the error list holds the errors of the calls in the order in
\* which the calls locked errorMutex: all of them but the one being added,
\* each once; at the join it holds one entry per call, none lost, none twice.
C19_OneEntryPerCall ==
    /\ Cardinality(errorMutex) <= 1
    /\ NoDuplicates
    /\ IF Storing = {}
       THEN collectedErrors = acquired
       ELSE /\ acquired # <<>>
            /\ collectedErrors = SubSeq(acquired, 1, Len(acquired) - 1)
            /\ \A r \in Storing : r.err = acquired[Len(acquired)]
    /\ \A i \in Reported :
          IF \E r \in NotStored : r.err = units[i].err
          THEN Occurrences(units[i].err) = {}
          ELSE Cardinality(Occurrences(units[i].err)) = 1
    /\ DriverReads =>
          /\ calls = NoCalls
          /\ collectedErrors = acquired
          /\ Len(collectedErrors) = Cardinality(Reported) + Cardinality(AccessErrors)

\* C19 witness: the walker and a worker are in addError at the same time:
\* the worker has added its error and still holds the mutex, the walker
\* waits for it
C19_Witness ==
    \E r, q \in calls :
        /\ r.caller = 0 /\ r.pc = "lock"
        /\ q.caller # 0 /\ q.pc = "unlock"
        /\ errorMutex = {q.caller}
        /\ collectedErrors = <<q.err>>

\* the units that wait for a slot
Waiting == {i \in UnitIds : units[i].pc = "acquire"}

\* a unit is done only by its wg.Done, which it reaches only by giving back
\* the slot it held
DoneOnlyAfterSlot ==
    \A i \in UnitIds :
        /\ (units[i].pc # "exit" /\ units'[i].pc = "exit") =>
              (units[i].pc = "wgdone" /\ wg' = wg - 1)
        /\ (units[i].pc # "wgdone" /\ units'[i].pc = "wgdone") => units[i].slot

\* C21: under a fair scheduler, and with every call of ConvertFile returning,
\* every run of ConvertDir terminates: whenever units wait for a slot they
\* all get one, every dispatched unit finishes and calls wg.Done after having
\* held a slot, and wg.Wait returns, also with more files than slots and
\* whichever file actions fail.
C21_RunTerminates ==
    /\ <>(pc = "done" /\ wg = 0 /\ sem = 0 /\ \A i \in UnitIds : units[i].pc = "exit")
    /\ (Waiting # {}) ~> (Waiting = {})
    /\ [][DoneOnlyAfterSlot]_vars

\* C21 witness: a finished run with more units than slots, in which a unit
\* failed and the unit dispatched after it still got its slot and finished
C21_Witness ==
    /\ prog = "ConvertDir" /\ pc = "done"
    /\ Len(units) > maxGoroutines
    /\ units[1].outcome = "Failed"
    /\ units[Len(units)].outcome \in {"Converted", "Relocated"}

\* the error entries of the file a unit was started for
ErrorsOf(u) ==
    {k \in 1..Len(collectedErrors) :
        collectedErrors[k].path = u.path /\ collectedErrors[k].kind # "access"}

\* the counters of ConvertDir, in the order of the fileActionType constants
Counters == <<failedFiles, processedFiles, movedFiles, skippedFiles>>

\* the stats step of unit i
StatsStepOf(i) == units[i].pc = "stats" /\ units'[i].pc # "stats"

\* a stats step of a unit that called ConvertFile adds one to exactly one
\* counter, and to failedFiles iff the unit's file has an error entry; the
\* counters change in no other step of the run
CountsOnce ==
    /\ \A i \in UnitIds :
          StatsStepOf(i) =>
              /\ units[i].called /\ units[i].returned
              /\ \E c \in 1..4 :
                    \A d \in 1..4 :
                        Counters'[d] = IF d = c THEN Counters[d] + 1 ELSE Counters[d]
              /\ (failedFiles' = failedFiles + 1) <=> (ErrorsOf(units[i]) # {})
              /\ Cardinality(ErrorsOf(units[i])) <= 1
    /\ (prog = "ConvertDir" /\ Counters' # Counters) => \E i \in UnitIds : StatsStepOf(i)

\* C22: in ConvertDir each file for which ConvertFile is called increments
\* exactly one of the four counters by exactly one, and the error list gets an
\* entry for that file if and only if that counter is failedFiles.
C22_OneCounterPerFile ==
    [][CountsOnce]_vars

\* C22 witness: a finished run in which one file was counted as failed, with
\* its error entry, and another as converted, with none
C22_Witness ==
    /\ prog = "ConvertDir" /\ pc = "done"
    /\ failedFiles = 1 /\ processedFiles = 1
    /\ \E i, j \in UnitIds :
          /\ units[i].fileAction = fileActionFail /\ ErrorsOf(units[i]) # {}
          /\ units[j].fileAction = fileActionConvert /\ ErrorsOf(units[j]) = {}
          /\ units[i].pc = "exit" /\ units[j].pc = "exit"

\* unit i of the next state has had its file action (a conversion, a rename
\* or a copy) settled by this step
ActionSettled(i) ==
    /\ units'[i].outcome \in {"Converted", "Relocated", "Failed"}
    /\ IF i <= Len(units) THEN units[i].outcome = "none" ELSE TRUE

\* a file action is carried out by a unit that already held a slot, and the
\* file system is written only by such a unit
ActsUnderSlot ==
    /\ \A i \in 1..Len(units') :
          ActionSettled(i) => (i <= Len(units) /\ units[i].slot)
    /\ files' # files =>
          \E i \in UnitIds : units[i].slot /\ units'[i] # units[i]

\* C23: in the directory run of main every Convert action and every Relocate
\* action (rename or copy) is performed by a unit that holds a pool slot for
\* the whole action.
C23_ActionsHoldSlot ==
    [][prog = "main" => ActsUnderSlot]_vars

\* the units of ConvertDir started for a file the filter excludes
Excluded == {i \in UnitIds : ~ShouldProcess(units[i].path)}

\* C24: in ConvertDir a file excluded by the filters never waits for a pool
\* slot and never holds one: the walker records it without dispatching a
\* unit.
C24_SkipTakesNoSlot ==
    prog = "ConvertDir" =>
        \A i \in Excluded : units[i].pc # "acquire" /\ ~units[i].slot

\* a step of the walker of ConvertDir
WalkerStep == DirWalkDirectory \/ DirVisitFile \/ DirWalkReturn

\* C25: in ConvertDir the walker never blocks on the pool or on a file's
\* completion: whatever the units do and however many slots are held, the
\* walker can take its next step until the walk has finished, and it waits
\* only at wg.Wait after the walk.
C25_WalkerNeverBlocks ==
    prog = "ConvertDir" =>
        /\ pc = "walk" => ENABLED WalkerStep
        /\ pc # "walk" => stack = <<>>
        /\ pc = "wait" => ~ENABLED WalkerStep

\* C25 witness: the walk has finished and dispatched more units than there
\* are slots while every slot was held and no unit had finished
C25_Witness ==
    /\ prog = "ConvertDir" /\ pc = "wait"
    /\ sem = maxGoroutines
    /\ Len(units) > maxGoroutines
    /\ \A i \in UnitIds : units[i].pc \notin {"wgdone", "exit"}
    /\ units[Len(units)].pc = "acquire"

-----------------------------------------------------------------------------
(* ConvertDir on a machine with one CPU more: sem has room for two units at
   the bounds of the model *)

InitMulti ==
    /\ InitOn("ConvertDir", maxGoroutines + 1)
    /\ opts \in PairConfigs

SpecMulti == InitMulti /\ [][NextDir]_vars

\* the units whose conversion, copy or rename is in progress
InFlight == {i \in UnitIds : units[i].slot /\ units[i].pc \in {"relocate", "command"}}

\* C26: in a run of ConvertDir no two executions in flight at the same time
\* target the same output path.
C26_NoSharedOutputPath ==
    prog = "ConvertDir" =>
        \A i, j \in InFlight :
            i # j => OutputPath(units[i].path) # OutputPath(units[j].path)

-----------------------------------------------------------------------------
(* The fail-fast directory run: main with context cancellation *)

\* what the steps of a fail-fast run leave alone
bystanders == <<dirs, tree, first, errorMutex, calls, acquired, numCPU,
                collectedErrors, failedFiles>>

\* runs with either extension as the target, so that a file to convert can be
\* walked before a file to relocate
FastConfigs ==
    [Sources : {{}}, Except : {{}, {".wav"}}, TargetExtension : Exts,
     OutDir : OutDirs, DeleteOriginal : BOOLEAN, Quiet : {FALSE}]

InitFast ==
    /\ prog = "failfast"
    /\ opts \in FastConfigs
    /\ files \in Trees
    /\ stack = <<DirEntry("src")>>
    /\ pc = "walk"
    /\ units = <<>>
    /\ sem = 0
    /\ wg = 0
    /\ collectedErrors = <<>>
    /\ processedFiles = 0
    /\ skippedFiles = 0
    /\ movedFiles = 0
    /\ failedFiles = 0
    /\ summary = NoSummary
    /\ result = "running"
    /\ dirs = AllDirs
    /\ tree = files
    /\ first = NoRun
    /\ errorMutex = {}
    /\ calls = NoCalls
    /\ acquired = <<>>
    /\ numCPU = maxGoroutines
    /\ firstErr = NoErr

\* ctx.Done() is closed: cancel() is called only together with the
\* assignment of firstErr, under errMutex
CtxDone == firstErr # NoErr

\* errMutex.Lock(); if firstErr == nil { firstErr = err; cancel() };
\* errMutex.Unlock()
SetFirstErr(e) == firstErr' = IF firstErr = NoErr THEN e ELSE firstErr

\* the callback returned a non-nil error: WalkDir returns it and
\* log.Fatalf exits the process, before wg.Wait
WalkFatal ==
    /\ pc' = "done"
    /\ result' = "exit 1"
    /\ stack' = <<>>

\* WalkDir reaches a directory; a read error is returned by the callback
FastWalkDirectory ==
    /\ prog = "failfast" /\ pc = "walk"
    /\ stack # <<>> /\ Head(stack).isDir
    /\ \/ /\ stack' = ReadDir(Head(stack).path.dir) \o Tail(stack)
          /\ UNCHANGED <<pc, result>>
       \/ WalkFatal
    /\ UNCHANGED <<bystanders, firstErr, prog, opts, files, units, sem, wg,
                   processedFiles, skippedFiles, movedFiles, summary>>

\* the callback on a file that does not match the source criteria
FastVisitSkip ==
    /\ prog = "failfast" /\ pc = "walk"
    /\ stack # <<>> /\ ~Head(stack).isDir
    /\ LET p == Head(stack).path
       IN  /\ ~MatchesSourceCriteria(p.ext)
           /\ units' = Append(units, [NewUnit(p, "exit") EXCEPT !.outcome = "Skipped"])
    /\ skippedFiles' = skippedFiles + 1
    /\ stack' = Tail(stack)
    /\ UNCHANGED <<bystanders, firstErr, prog, opts, files, pc, sem, wg,
                   processedFiles, movedFiles, summary, result>>

\* the callback on a file to convert: select on ctx.Done() with a default,
\* then processedFiles++; wg.Add(1); go func
FastVisitConvert ==
    /\ prog = "failfast" /\ pc = "walk"
    /\ stack # <<>> /\ ~Head(stack).isDir
    /\ LET p == Head(stack).path
       IN  /\ MatchesSourceCriteria(p.ext)
           /\ p.ext # opts.TargetExtension
           /\ IF CtxDone
              THEN /\ WalkFatal
                   /\ UNCHANGED <<units, processedFiles, wg>>
              ELSE /\ units' = Append(units,
                         [NewUnit(p, "acquire") EXCEPT !.matchesSourceCriteria = TRUE,
                                                       !.shouldConvert = TRUE])
                   /\ processedFiles' = processedFiles + 1
                   /\ wg' = wg + 1
                   /\ stack' = Tail(stack)
                   /\ UNCHANGED <<pc, result>>
    /\ UNCHANGED <<bystanders, firstErr, prog, opts, files, sem, skippedFiles,
                   movedFiles, summary>>

\* the callback on a file already in the target format: skipped when it is
\* its own output path, else movedFiles++ and os.Rename or copyFile by the
\* walker; a failure is returned by the callback
FastVisitMoveOrCopy ==
    /\ prog = "failfast" /\ pc = "walk"
    /\ stack # <<>> /\ ~Head(stack).isDir
    /\ LET p == Head(stack).path
           out == OutputPath(p)
           u == [NewUnit(p, "exit") EXCEPT !.matchesSourceCriteria = TRUE,
                                           !.shouldMoveOrCopy = TRUE]
       IN  /\ MatchesSourceCriteria(p.ext)
           /\ p.ext = opts.TargetExtension
           /\ \/ /\ SameFile(p)
                 /\ skippedFiles' = skippedFiles + 1
                 /\ units' = Append(units, [u EXCEPT !.outcome = "Skipped"])
                 /\ stack' = Tail(stack)
                 /\ UNCHANGED <<files, movedFiles, pc, result>>
              \/ /\ ~SameFile(p)
                 /\ movedFiles' = movedFiles + 1
                 /\ skippedFiles' = skippedFiles
                 /\ \/ /\ p \in files
                       /\ files' = Relocated(p, out)
                       /\ units' = Append(units, [u EXCEPT !.outcome = "Relocated"])
                       /\ stack' = Tail(stack)
                       /\ UNCHANGED <<pc, result>>
                    \/ /\ \E created \in BOOLEAN :
                            files' = IF created /\ ~opts.DeleteOriginal /\ p \in files
                                     THEN files \cup {out}
                                     ELSE files
                       /\ units' = Append(units,
                             [u EXCEPT !.outcome = "Failed",
                                       !.err = Err(IF opts.DeleteOriginal
                                                   THEN "move" ELSE "copy", p)])
                       /\ WalkFatal
    /\ UNCHANGED <<bystanders, firstErr, prog, opts, sem, wg, processedFiles, summary>>

\* WalkDir returns nil
FastWalkReturn ==
    /\ prog = "failfast" /\ pc = "walk"
    /\ stack = <<>>
    /\ pc' = "wait"
    /\ UNCHANGED <<bystanders, firstErr, prog, opts, files, stack, units, sem, wg,
                   processedFiles, skippedFiles, movedFiles, summary, result>>

\* the goroutine's select: the send on sem if the channel has room, the
\* receive from ctx.Done() if the context is cancelled; when both can
\* proceed either is taken
FastAcquire(i) ==
    /\ prog = "failfast" /\ result = "running"
    /\ units[i].pc = "acquire"
    /\ \/ /\ CanAcquire
          /\ sem' = sem + 1
          /\ SetUnit(i, [units[i] EXCEPT !.slot = TRUE, !.pc = "command"])
       \/ /\ CtxDone
          /\ sem' = sem
          /\ SetUnit(i, [units[i] EXCEPT !.pc = "wgdone"])
    /\ UNCHANGED <<bystanders, firstErr, prog, opts, files, stack, pc, wg,
                   processedFiles, skippedFiles, movedFiles, summary, result>>

\* generateConvertCommand and runCommand; a failure sets firstErr if it is
\* nil, cancels the context and returns
FastCommand(i) ==
    /\ prog = "failfast" /\ result = "running"
    /\ units[i].pc = "command"
    /\ LET u == units[i]
           p == u.path
       IN  \/ /\ files' = files
              /\ SetFirstErr(Err("generate", p))
              /\ SetUnit(i, [u EXCEPT !.err = Err("generate", p),
                                      !.outcome = "Failed", !.pc = "release"])
           \/ /\ files' = files
              /\ SetFirstErr(Err("convert", p))
              /\ SetUnit(i, [u EXCEPT !.err = Err("convert", p),
                                      !.outcome = "Failed", !.pc = "release"])
           \/ /\ p \in files
              /\ files' = files \cup {OutputPath(p)}
              /\ firstErr' = firstErr
              /\ IF DeleteOriginalSet
                 THEN SetUnit(i, [u EXCEPT !.pc = "remove"])
                 ELSE SetUnit(i, [u EXCEPT !.outcome = "Converted", !.pc = "release"])
    /\ UNCHANGED <<bystanders, prog, opts, stack, pc, sem, wg, processedFiles,
                   skippedFiles, movedFiles, summary, result>>

\* os.Remove of the original; a failure sets firstErr if it is nil and
\* cancels the context
FastRemove(i) ==
    /\ prog = "failfast" /\ result = "running"
    /\ units[i].pc = "remove"
    /\ LET u == units[i]
           p == u.path
       IN  \/ /\ p \in files
              /\ files' = files \ {p}
              /\ firstErr' = firstErr
              /\ SetUnit(i, [u EXCEPT !.outcome = "Converted", !.pc = "release"])
           \/ /\ files' = files
              /\ SetFirstErr(Err("delete", p))
              /\ SetUnit(i, [u EXCEPT !.err = Err("delete", p),
                                      !.outcome = "Failed", !.pc = "release"])
    /\ UNCHANGED <<bystanders, prog, opts, stack, pc, sem, wg, processedFiles,
                   skippedFiles, movedFiles, summary, result>>

\* deferred func() { <-sem }()
FastRelease(i) ==
    /\ prog = "failfast" /\ result = "running"
    /\ units[i].pc = "release"
    /\ sem' = ReceiveFromSem
    /\ SetUnit(i, [units[i] EXCEPT !.slot = FALSE, !.pc = "wgdone"])
    /\ UNCHANGED <<bystanders, firstErr, prog, opts, files, stack, pc, wg,
                   processedFiles, skippedFiles, movedFiles, summary, result>>

\* deferred wg.Done()
FastDone(i) ==
    /\ prog = "failfast" /\ result = "running"
    /\ units[i].pc = "wgdone"
    /\ wg' = wg - 1
    /\ SetUnit(i, [units[i] EXCEPT !.pc = "exit"])
    /\ UNCHANGED <<bystanders, firstErr, prog, opts, files, stack, pc, sem,
                   processedFiles, skippedFiles, movedFiles, summary, result>>

\* wg.Wait()
FastWait ==
    /\ prog = "failfast" /\ pc = "wait"
    /\ WaitReturns
    /\ pc' = "report"
    /\ UNCHANGED <<bystanders, firstErr, prog, opts, files, stack, units, sem, wg,
                   processedFiles, skippedFiles, movedFiles, summary, result>>

\* if firstErr != nil { log.Fatalf } else the summary
FastReport ==
    /\ prog = "failfast" /\ pc = "report"
    /\ IF firstErr # NoErr
       THEN /\ result' = "exit 1"
            /\ summary' = summary
       ELSE /\ result' = "exit 0"
            /\ summary' = IF ~opts.Quiet THEN Summary ELSE summary
    /\ pc' = "done"
    /\ UNCHANGED <<bystanders, firstErr, prog, opts, files, stack, units, sem, wg,
                   processedFiles, skippedFiles, movedFiles>>

NextFast ==
    \/ FastWalkDirectory
    \/ FastVisitSkip
    \/ FastVisitConvert
    \/ FastVisitMoveOrCopy
    \/ FastWalkReturn
    \/ \E i \in UnitIds :
          \/ FastAcquire(i)
          \/ FastCommand(i)
          \/ FastRemove(i)
          \/ FastRelease(i)
          \/ FastDone(i)
    \/ FastWait
    \/ FastReport

SpecFast == InitFast /\ [][NextFast]_vars

\* the units whose conversion command or removal is running
Running == {i \in UnitIds : units[i].pc \in {"command", "remove"}}

\* C27: in the fail-fast directory run the process exits only after every
\* dispatched conversion unit has finished: no exit is taken while a
\* dispatched unit is still running its command.
C27_ExitAfterUnits ==
    (prog = "failfast" /\ pc = "done") => Running = {}

\* once the context is cancelled a unit that waits for a slot only returns,
\* without a slot; no unit is dispatched and firstErr keeps its value
NothingStartsAfterCancel ==
    (prog = "failfast" /\ CtxDone) =>
        /\ \A i \in UnitIds :
              units[i].pc = "acquire" =>
                  (units'[i].pc \in {"acquire", "wgdone"} /\ ~units'[i].slot)
        /\ Len(units') > Len(units) => units'[Len(units')].pc # "acquire"
        /\ wg' <= wg
        /\ sem' <= sem
        /\ firstErr' = firstErr

\* C28: in the fail-fast directory run, once firstErr is recorded and the
\* context cancelled, no conversion that has not yet acquired a slot starts
\* executing, the walker dispatches no further file, and firstErr is never
\* overwritten.
C28_CancelStopsWaiting ==
    [][NothingStartsAfterCancel]_vars

\* the Action was given neither --dir nor --files
NoInput == prog = "Action" /\ opts.Dir = "" /\ opts.Files = <<>>

\* C29: when neither --dir nor --files is given the Action returns the error
\* that an input is required and performs no conversion; it never returns
\* success without an input.
C29_NoInputIsAnError ==
    (NoInput /\ pc = "done") => (result = "error" /\ units = <<>>)

=============================================================================
